---------------------------- MODULE Spec2Model ----------------------------
(***************************************************************************)
(* Model of scripts/record.py: the resource recorder.                      *)
(*                                                                         *)
(* The script is one control flow (module level code) plus one            *)
(* asynchronous SIGINT handler.  The model follows the script line by      *)
(* line: the backend factory, the sampling loop, the aggregation and the   *)
(* report writer.                                                          *)
(*                                                                         *)
(* Numbers.  Python floats are modelled as exact rationals <<n, d>> with   *)
(* d > 0 in lowest terms.  The inputs are drawn from dyadic values         *)
(* (integers, halves), for which float arithmetic of the script is exact   *)
(* or differs from the rational result by far less than the distance to    *)
(* the nearest rounding tie, so that formatting agrees with Python.        *)
(* Optional[T] is modelled as a sequence: None is << >>, a value x is      *)
(* <<x>>.                                                                  *)
(***************************************************************************)
EXTENDS Integers, Sequences, FiniteSets, TLC

\* ------------------------------------------------------------------------
\* Bounds of the model
\* ------------------------------------------------------------------------
\* The loop is not started again once this many ticks have completed.
MaxTicks == 2
\* Number of SIGINT deliveries that are explored.
MaxInterrupts == 2

\* Bounds of the model of several runs: the readings of the wall clock and
\* the ticks of one run.
MaxWall == 3
MaxRunTicks == 1

\* ------------------------------------------------------------------------
\* Values: Optional, integers of any size, floats
\* ------------------------------------------------------------------------
None == << >>
Some(x) == <<x>>
IsNone(o) == Len(o) = 0
Val(o) == o[1]

Abs(n) == IF n < 0 THEN -n ELSE n

\* F applied to the value of x (of x1, x2, x3): an operand is evaluated
\* once, however often its value is used.
Let(x, F(_)) == CHOOSE y \in {F(v) : v \in {x}} : TRUE
Let2(x1, x2, F(_, _)) ==
    CHOOSE y \in {F(v1, v2) : v1 \in {x1}, v2 \in {x2}} : TRUE
Let3(x1, x2, x3, F(_, _, _)) ==
    CHOOSE y \in {F(v1, v2, v3) : v1 \in {x1}, v2 \in {x2}, v3 \in {x3}} : TRUE

\* 2^k for 0 <= k <= 30, read from the sequence of the powers 2^1 .. 2^30.
RECURSIVE Doublings(_)
Doublings(k) ==
    IF k = 0 THEN << >>
    ELSE LET ps == Doublings(k - 1)
         IN  ps \o <<IF k = 1 THEN 2 ELSE 2 * ps[k - 1]>>
MaxPow == 30
Powers == Doublings(MaxPow)
Pow2(k) == IF k = 0 THEN 1 ELSE Powers[k]

\* A natural number of any size is the sequence of its digits in base
\* 2^15, lowest first, without leading zeros; 0 is the empty sequence.
LimbBits == 15
Base == Pow2(LimbBits)

RECURSIVE Big(_)
Big(n) == IF n = 0 THEN << >> ELSE <<n % Base>> \o Big(n \div Base)

\* The digits 1..n of a without its leading zeros.
RECURSIVE BigNormAt(_, _)
BigNormAt(a, n) ==
    IF n > 0 /\ a[n] = 0 THEN BigNormAt(a, n - 1) ELSE SubSeq(a, 1, n)
BigNorm(a) == Let(a, LAMBDA u : BigNormAt(u, Len(u)))

\* Digit i of a, 0 above its highest digit.
Digit(a, i) == IF i > Len(a) THEN 0 ELSE a[i]

\* The digits of a + b from digit i upwards, with the carry c.
RECURSIVE BigAddAt(_, _, _, _)
BigAddAt(a, b, i, c) ==
    IF i > Len(a) /\ i > Len(b) THEN (IF c = 0 THEN << >> ELSE <<c>>)
    ELSE LET x == Digit(a, i) + Digit(b, i) + c
         IN  <<x % Base>> \o BigAddAt(a, b, i + 1, x \div Base)
BigAdd(a, b) == Let2(a, b, LAMBDA u, v : BigAddAt(u, v, 1, 0))

\* a - b for a >= b: the digits from digit i upwards, with the borrow c.
RECURSIVE BigSubAt(_, _, _, _)
BigSubAt(a, b, i, c) ==
    IF i > Len(a) THEN << >>
    ELSE LET x == a[i] - Digit(b, i) - c
         IN  <<(x + Base) % Base>>
                 \o BigSubAt(a, b, i + 1, IF x < 0 THEN 1 ELSE 0)
BigSub(a, b) == Let2(a, b, LAMBDA u, v : BigNorm(BigSubAt(u, v, 1, 0)))

\* -1, 0 or 1 as a < b, a = b or a > b; for equal lengths the digits are
\* compared from digit i downwards.
RECURSIVE BigCmpAt(_, _, _)
BigCmpAt(a, b, i) ==
    IF i = 0 THEN 0
    ELSE IF a[i] < b[i] THEN -1
    ELSE IF a[i] > b[i] THEN 1
    ELSE BigCmpAt(a, b, i - 1)
BigCmp(a, b) ==
    Let2(a, b, LAMBDA u, v :
        IF Len(u) < Len(v) THEN -1
        ELSE IF Len(u) > Len(v) THEN 1
        ELSE BigCmpAt(u, v, Len(u)))

\* a * k for 0 <= k < Base: the digits from digit i upwards, with the
\* carry c.
RECURSIVE BigMulSmallAt(_, _, _, _)
BigMulSmallAt(a, k, i, c) ==
    IF i > Len(a) THEN (IF c = 0 THEN << >> ELSE <<c>>)
    ELSE LET x == a[i] * k + c
         IN  <<x % Base>> \o BigMulSmallAt(a, k, i + 1, x \div Base)
BigMulSmall(a, k) ==
    Let2(a, k, LAMBDA u, v : IF v = 0 THEN << >> ELSE BigMulSmallAt(u, v, 1, 0))

\* a * b for a # 0: the sum of the products by the digits of b from digit j
\* upwards.
RECURSIVE BigMulAt(_, _, _)
BigMulAt(a, b, j) ==
    IF j > Len(b) THEN << >>
    ELSE BigAdd(BigMulSmall(a, b[j]),
                IF j = Len(b) THEN << >> ELSE <<0>> \o BigMulAt(a, b, j + 1))
BigMul(a, b) ==
    Let2(a, b, LAMBDA u, v : IF Len(u) = 0 THEN << >> ELSE BigMulAt(u, v, 1))

\* Quotient and remainder of a by k, 0 < k < Base: the digits of the
\* quotient from digit i upwards, the highest digit divided first.
RECURSIVE BigDivSmallAt(_, _, _)
BigDivSmallAt(a, k, i) ==
    IF i > Len(a) THEN [q |-> << >>, r |-> 0]
    ELSE LET hi == BigDivSmallAt(a, k, i + 1)
             x  == hi.r * Base + a[i]
         IN  [q |-> <<x \div k>> \o hi.q, r |-> x % k]
BigDivSmall(a, k) ==
    Let2(a, k, LAMBDA u, v :
        Let(BigDivSmallAt(u, v, 1), LAMBDA d : [q |-> BigNorm(d.q), r |-> d.r]))

RECURSIVE Zeros(_)
Zeros(n) == IF n = 0 THEN << >> ELSE <<0>> \o Zeros(n - 1)

\* a * 2^s and a \div 2^s
BigShl(a, s) ==
    Let2(a, s, LAMBDA u, v :
        IF Len(u) = 0 THEN u
        ELSE Zeros(v \div LimbBits) \o BigMulSmall(u, Pow2(v % LimbBits)))
BigShr(a, s) ==
    Let2(a, s, LAMBDA u, v :
        IF Len(u) <= v \div LimbBits THEN << >>
        ELSE BigDivSmall(SubSeq(u, v \div LimbBits + 1, Len(u)),
                         Pow2(v % LimbBits)).q)

\* The number of bits of 0 <= x < 2^30: the least b in lo..hi with x < 2^b,
\* by bisection.
RECURSIVE BitLenIn(_, _, _)
BitLenIn(x, lo, hi) ==
    IF lo = hi THEN lo
    ELSE IF x < Pow2((lo + hi) \div 2)
         THEN BitLenIn(x, lo, (lo + hi) \div 2)
         ELSE BitLenIn(x, (lo + hi) \div 2 + 1, hi)
BitLen(x) == BitLenIn(x, 0, MaxPow)
BigBitLen(a) ==
    Let(a, LAMBDA u :
        IF Len(u) = 0 THEN 0
        ELSE LimbBits * (Len(u) - 1) + BitLen(u[Len(u)]))

\* The number of zero bits at the low end of x # 0 and of a # 0
RECURSIVE LowZerosIn(_, _, _)
LowZerosIn(x, lo, hi) ==
    IF lo = hi THEN lo
    ELSE IF x % Pow2((lo + hi + 1) \div 2) = 0
         THEN LowZerosIn(x, (lo + hi + 1) \div 2, hi)
         ELSE LowZerosIn(x, lo, (lo + hi + 1) \div 2 - 1)
LowZeros(x) == IF x % 2 = 1 THEN 0 ELSE LowZerosIn(x, 1, MaxPow)
RECURSIVE BigLowZerosAt(_, _)
BigLowZerosAt(a, i) ==
    IF a[i] = 0 THEN LimbBits + BigLowZerosAt(a, i + 1) ELSE LowZeros(a[i])
BigLowZeros(a) == Let(a, LAMBDA u : BigLowZerosAt(u, 1))

BigIsOdd(a) == Let(a, LAMBDA u : Len(u) > 0 /\ u[1] % 2 = 1)

\* The largest digit d with b * d <= x, for x < b * Base, found one bit at
\* a time from bit i down; c holds the bits found.
RECURSIVE BigDivDigit(_, _, _, _)
BigDivDigit(x, b, i, c) ==
    IF i < 0 THEN c
    ELSE Let(c + Pow2(i), LAMBDA c1 :
             IF BigCmp(BigMulSmall(b, c1), x) <= 0
             THEN BigDivDigit(x, b, i - 1, c1)
             ELSE BigDivDigit(x, b, i - 1, c))

\* Quotient and remainder of a by b # 0 (long division): the digits of the
\* quotient from digit i upwards, the highest digit divided first.
RECURSIVE BigDivLongAt(_, _, _)
BigDivLongAt(a, b, i) ==
    IF i > Len(a) THEN [q |-> << >>, r |-> << >>]
    ELSE Let(BigDivLongAt(a, b, i + 1), LAMBDA hi :
         Let(BigNorm(<<a[i]>> \o hi.r), LAMBDA x :
         Let(BigDivDigit(x, b, LimbBits - 1, 0), LAMBDA c :
             [q |-> <<c>> \o hi.q, r |-> BigSub(x, BigMulSmall(b, c))])))
BigDivMod(a, b) ==
    Let2(a, b, LAMBDA u, v :
        IF Len(v) = 1
        THEN Let(BigDivSmall(u, v[1]), LAMBDA d : [q |-> d.q, r |-> Big(d.r)])
        ELSE Let(BigDivLongAt(u, v, 1),
                 LAMBDA d : [q |-> BigNorm(d.q), r |-> d.r]))

\* A positive dyadic number m * 2^e is the pair <<m, e>>; in its canonical
\* form m is odd.
Canon(m, e) ==
    Let(m, LAMBDA u :
        IF Len(u) = 0 THEN <<u, 0>>
        ELSE Let(BigLowZeros(u), LAMBDA z : <<BigShr(u, z), e + z>>))

\* The double nearest to (n / d) * 2^ex for n, d > 0, ties to the even
\* mantissa of 53 bits (IEEE 754 binary64; the exponent range is not
\* reached by the quantities of the program).  The quotient of n * 2^s by d
\* has 55 or 56 bits; its bits below the 53 highest and the remainder
\* decide the rounding.
MantBits == 53
RoundDiv(n, d, ex) ==
    Let2(n, d, LAMBDA nv, dv :
    Let(MantBits + 2 - (BigBitLen(nv) - BigBitLen(dv)), LAMBDA s :
    Let(BigDivMod(IF s >= 0 THEN BigShl(nv, s) ELSE nv,
                  IF s >= 0 THEN dv ELSE BigShl(dv, -s)), LAMBDA dm :
    Let(BigBitLen(dm.q) - MantBits, LAMBDA t :
    Let2(BigShr(dm.q, t), dm.q[1] % Pow2(t), LAMBDA m0, low :
        Canon(IF \/ low > Pow2(t - 1)
                 \/ low = Pow2(t - 1) /\ (Len(dm.r) # 0 \/ BigIsOdd(m0))
              THEN BigAdd(m0, <<1>>) ELSE m0,
              t - s + ex))))))

\* A float is <<s, m, e>>: the sign s (1 or -1) and the canonical dyadic
\* magnitude m * 2^e; 0.0 and -0.0 have the empty sequence of digits as m
\* and the exponent 0.
Fl(s, me) == Let(me, LAMBDA v : <<s, v[1], v[2]>>)
Zero == <<1, << >>, 0>>
NegZero == <<-1, << >>, 0>>
IsZero(a) == Len(a[2]) = 0
Sgn(n) == IF n < 0 THEN -1 ELSE 1

\* float(n) of an int
Int2Rat(n) == Let(n, LAMBDA v : Fl(Sgn(v), Canon(Big(Abs(v)), 0)))

\* n / d of two ints or of an int and an integral float, d # 0: the
\* correctly rounded quotient; a zero quotient takes the sign of d.
Rat(n, d) ==
    Let2(n, d, LAMBDA nv, dv :
        IF nv = 0 THEN (IF dv < 0 THEN NegZero ELSE Zero)
        ELSE Fl(Sgn(nv) * Sgn(dv), RoundDiv(Big(Abs(nv)), Big(Abs(dv)), 0)))

\* a / b of two floats, b # 0
RatDiv(a, b) ==
    Let2(a, b, LAMBDA x, y :
        IF IsZero(x) THEN <<x[1] * y[1], << >>, 0>>
        ELSE Fl(x[1] * y[1], RoundDiv(x[2], y[2], x[3] - y[3])))

\* a * b of two floats
RatMul(a, b) ==
    Let2(a, b, LAMBDA x, y :
        IF IsZero(x) \/ IsZero(y) THEN <<x[1] * y[1], << >>, 0>>
        ELSE Fl(x[1] * y[1],
                RoundDiv(BigMul(x[2], y[2]), <<1>>, x[3] + y[3])))

\* Comparison of magnitudes m * 2^e: -1, 0 or 1
MagCmp(a, b) ==
    Let2(a, b, LAMBDA x, y :
    Let(IF x[3] < y[3] THEN x[3] ELSE y[3], LAMBDA lo :
        BigCmp(BigShl(x[2], x[3] - lo), BigShl(y[2], y[3] - lo))))

\* Comparison of floats: -0.0 and 0.0 compare equal.
FlCmp(a, b) ==
    Let2(a, b, LAMBDA x, y :
    Let2(IF IsZero(x) THEN 0 ELSE x[1], IF IsZero(y) THEN 0 ELSE y[1],
         LAMBDA sa, sb :
            IF sa # sb THEN (IF sa < sb THEN -1 ELSE 1)
            ELSE IF sa = 0 THEN 0
            ELSE sa * MagCmp(x, y)))
RatLess(a, b) == FlCmp(a, b) < 0
RatLeq(a, b) == FlCmp(a, b) <= 0

\* The exact sum of two floats, as fractions.Fraction adds them: a dyadic
\* number of any size; a zero sum is positive.
RatAdd(a, b) ==
    Let2(a, b, LAMBDA p, q :
        IF IsZero(p) /\ IsZero(q) THEN Zero
        ELSE
    Let(IF p[3] < q[3] THEN p[3] ELSE q[3], LAMBDA lo :
    Let2(BigShl(p[2], p[3] - lo), BigShl(q[2], q[3] - lo), LAMBDA x, y :
        IF p[1] = q[1] THEN Fl(p[1], Canon(BigAdd(x, y), lo))
        ELSE
    Let(BigCmp(x, y), LAMBDA c :
        IF c = 0 THEN Zero
        ELSE IF c > 0 THEN Fl(p[1], Canon(BigSub(x, y), lo))
        ELSE Fl(q[1], Canon(BigSub(y, x), lo))))))

\* Results of a call: a returned value or a raised exception.
Return(v) == [ok |-> TRUE, val |-> v]
Raise(e) == [ok |-> FALSE, exc |-> e]


\* ------------------------------------------------------------------------
\* helpers (record.py lines 39-42)
\* ------------------------------------------------------------------------
\* A Python value handed to fmt: a float or a str.
Float(r) == [t |-> "float", v |-> r]
Str(s) == [t |-> "str", v |-> s]

RECURSIVE Pow10(_)
Pow10(k) == IF k = 0 THEN 1 ELSE 10 * Pow10(k - 1)

\* |r| * 10^nd rounded to an integer, ties to even: the digits that the
\* format specification ".{nd}f" prints for the float r, whose value is
\* taken exactly.  q2 is twice the value, cut off; its low bit and the bits
\* cut off decide the rounding.
RoundHalfEven(r, nd) ==
    Let(r, LAMBDA v :
    Let(BigMul(v[2], Big(Pow10(nd))), LAMBDA x :
        IF v[3] >= 0 THEN BigShl(x, v[3])
        ELSE
    Let(BigShr(x, -v[3] - 1), LAMBDA q2 :
    Let(BigShr(q2, 1), LAMBDA q :
        IF /\ BigIsOdd(q2)
           /\ (BigCmp(BigShl(q2, -v[3] - 1), x) # 0 \/ BigIsOdd(q))
        THEN BigAdd(q, <<1>>) ELSE q))))

\* A Python str is modelled as the sequence of its characters.
EmptyStr == << >>

\* The decimal digits of the natural number m.
RECURSIVE IntChars(_)
IntChars(m) ==
    IF m < 10 THEN <<ToString(m)>>
    ELSE IntChars(m \div 10) \o <<ToString(m % 10)>>

\* The decimal digits of a natural number of any size.
RECURSIVE BigChars(_)
BigChars(a) ==
    Let(BigDivSmall(a, 10), LAMBDA d :
        (IF Len(d.q) = 0 THEN EmptyStr ELSE BigChars(d.q))
            \o <<ToString(d.r)>>)

\* The nd low decimal digits of m, zero padded.
RECURSIVE Digits(_, _)
Digits(m, nd) ==
    IF nd = 0 THEN EmptyStr ELSE Digits(m \div 10, nd - 1) \o <<ToString(m % 10)>>

RECURSIVE ZeroChars(_)
ZeroChars(n) == IF n <= 0 THEN EmptyStr ELSE <<"0">> \o ZeroChars(n - 1)

\* The decimal numeral of m / 10^nd with nd digits after the point, for the
\* digits cs of m.
DecStr(cs, nd) ==
    Let(cs, LAMBDA c :
    Let(ZeroChars(nd + 1 - Len(c)) \o c, LAMBDA p :
        SubSeq(p, 1, Len(p) - nd)
            \o (IF nd = 0 THEN EmptyStr
                ELSE <<".">> \o SubSeq(p, Len(p) - nd + 1, Len(p)))))

\* f"{n:.{nd}f}": the sign is printed for negative floats, -0.0 included.
FormatFixed(r, nd) ==
    Let(r, LAMBDA v :
        (IF v[1] < 0 THEN <<"-">> ELSE EmptyStr)
            \o DecStr(BigChars(RoundHalfEven(v, nd)), nd))

\* str.rstrip(): trailing blanks removed; n characters are left to test.
RECURSIVE rstripAt(_, _)
rstripAt(cs, n) ==
    IF n > 0 /\ cs[n] = " " THEN rstripAt(cs, n - 1) ELSE SubSeq(cs, 1, n)
rstrip(cs) == Let(cs, LAMBDA c : rstripAt(c, Len(c)))

\* fmt(n, unit, nd): a str is returned as it is; a float is printed with nd
\* decimals, a blank and the unit, and trailing blanks are stripped.
fmt(n, unit, nd) ==
    Let(n, LAMBDA v :
        IF v.t = "str" THEN v.v
        ELSE rstrip(FormatFixed(v.v, nd) \o <<" ">> \o unit))

\* ------------------------------------------------------------------------
\* Aggregation (record.py lines 198-199)
\* ------------------------------------------------------------------------
\* min and max of the first n items of xs: an item replaces the one kept
\* only when it is smaller (larger).
RECURSIVE SeqMin(_, _)
SeqMin(xs, n) ==
    IF n = 1 THEN xs[1]
    ELSE Let(SeqMin(xs, n - 1),
             LAMBDA m : IF RatLess(xs[n], m) THEN xs[n] ELSE m)

RECURSIVE SeqMax(_, _)
SeqMax(xs, n) ==
    IF n = 1 THEN xs[1]
    ELSE Let(SeqMax(xs, n - 1),
             LAMBDA m : IF RatLess(m, xs[n]) THEN xs[n] ELSE m)

\* The exact sum of the first n items of xs.
RECURSIVE SeqSum(_, _)
SeqSum(xs, n) ==
    IF n = 0 THEN Zero ELSE RatAdd(SeqSum(xs, n - 1), xs[n])

\* min(xs), max(xs): the first of equal items is kept; ValueError on an
\* empty sequence.
min(xs) ==
    Let(xs, LAMBDA v :
        IF Len(v) = 0 THEN Raise("ValueError") ELSE Return(SeqMin(v, Len(v))))
max(xs) ==
    Let(xs, LAMBDA v :
        IF Len(v) = 0 THEN Raise("ValueError") ELSE Return(SeqMax(v, Len(v))))

\* The float nearest to total / n for the exact sum total.
FractionToFloat(total, n) ==
    Let(total, LAMBDA v :
        IF IsZero(v) THEN Zero ELSE Fl(v[1], RoundDiv(v[2], Big(n), v[3])))

\* A mean that forgets to divide by the number of samples.
mean_sum(xs) ==
    Let(xs, LAMBDA v :
        IF Len(v) = 0 THEN Raise("StatisticsError")
        ELSE Return(FractionToFloat(SeqSum(v, Len(v)), 1)))

\* statistics.mean(xs): the items are added exactly, as fractions, and the
\* quotient by their number is converted to the nearest float;
\* StatisticsError on an empty sequence.
mean(xs) ==
    Let(xs, LAMBDA v :
        IF Len(v) = 0 THEN Raise("StatisticsError")
        ELSE Return(FractionToFloat(SeqSum(v, Len(v)), Len(v))))

\* _stats(xs): the arguments of the tuple are evaluated left to right, the
\* first exception propagates.
_stats(xs) ==
    Let3(min(xs), max(xs), mean(xs), LAMBDA lo, hi, av :
        IF ~lo.ok THEN lo
        ELSE IF ~hi.ok THEN hi
        ELSE IF ~av.ok THEN av
        ELSE Return(<<fmt(Float(lo.val), EmptyStr, 1),
                      fmt(Float(hi.val), EmptyStr, 1),
                      fmt(Float(av.val), EmptyStr, 1)>>))

\* The literal "N/A" of line 206.
NA == <<"N", "/", "A">>


\* ------------------------------------------------------------------------
\* Power back-ends (record.py lines 59-161)
\* ------------------------------------------------------------------------
SYSNAMES == {"Linux", "Darwin", "Windows", "Other"}

\* --- Linux: the RAPL counters -------------------------------------------
\* What the powercap directory holds at one read: whether the directory
\* exists and, for each intel-rapl:* entry, the value of energy_uj in
\* microjoules or None when reading or parsing it raised.
RaplReads ==
    { [exists |-> FALSE, pkgs |-> << >>],
      [exists |-> TRUE,  pkgs |-> << >>],
      [exists |-> TRUE,  pkgs |-> <<None>>],
      [exists |-> TRUE,  pkgs |-> <<Some(0)>>],
      [exists |-> TRUE,  pkgs |-> <<Some(1000000)>>],
      [exists |-> TRUE,  pkgs |-> <<Some(2150000)>>],
      [exists |-> TRUE,  pkgs |-> <<Some(1000000), None>>],
      [exists |-> TRUE,  pkgs |-> <<Some(1000000), Some(1150000)>> ] }

\* The loop of lines 64-69: unreadable entries are skipped.
RECURSIVE RaplTotal(_)
RaplTotal(pkgs) ==
    IF Len(pkgs) = 0 THEN 0
    ELSE RaplTotal(Tail(pkgs))
            + (IF IsNone(Head(pkgs)) THEN 0 ELSE Val(Head(pkgs)))

\* _rapl_joules_linux(): "total or None", a total of 0 is None.
_rapl_joules_linux(rd) ==
    IF ~rd.exists THEN None
    ELSE LET total == RaplTotal(rd.pkgs)
         IN  IF total = 0 THEN None ELSE Some(total)

\* Microjoules per joule, the 1e6 of line 150.
MicroPerUnit == 1000000

\* max(a, b) of Python for two arguments: b only when b > a.
max2(a, b) == Let2(a, b, LAMBDA x, y : IF RatLess(x, y) THEN y ELSE x)

\* A closure that tests only the new reading and differences against 0
\* when there is no stored one.
_linux_prev_zero(lj, lt, j, t) ==
    IF IsNone(j)
    THEN [ok |-> TRUE, val |-> None, last_j |-> lj, last_t |-> lt]
    ELSE IF t - lt = 0
    THEN [ok |-> FALSE, exc |-> "ZeroDivisionError",
          last_j |-> lj, last_t |-> lt]
    ELSE LET p == IF IsNone(lj) THEN 0 ELSE Val(lj)
             q == RatDiv(Rat(Val(j) - p, t - lt), Int2Rat(MicroPerUnit))
         IN  [ok |-> TRUE, val |-> Some(IF RatLess(q, Zero) THEN Zero ELSE q),
              last_j |-> j, last_t |-> t]

\* A closure that adopts the first available reading when it has no stored
\* one.
_linux_adopt(lj, lt, j, t) ==
    IF IsNone(j)
    THEN [ok |-> TRUE, val |-> None, last_j |-> lj, last_t |-> lt]
    ELSE IF IsNone(lj)
    THEN [ok |-> TRUE, val |-> None, last_j |-> j, last_t |-> t]
    ELSE IF t - lt = 0
    THEN [ok |-> FALSE, exc |-> "ZeroDivisionError",
          last_j |-> lj, last_t |-> lt]
    ELSE LET q == RatDiv(Rat(Val(j) - Val(lj), t - lt), Int2Rat(MicroPerUnit))
         IN  [ok |-> TRUE, val |-> Some(max2(q, Zero)),
              last_j |-> j, last_t |-> t]

\* A closure that takes the time before the test of line 147 and stores it
\* also when it returns None.
_linux_touch(lj, lt, j, t) ==
    IF IsNone(j) \/ IsNone(lj)
    THEN [ok |-> TRUE, val |-> None, last_j |-> lj, last_t |-> t]
    ELSE IF t - lt = 0
    THEN [ok |-> FALSE, exc |-> "ZeroDivisionError",
          last_j |-> lj, last_t |-> lt]
    ELSE LET q == RatDiv(Rat(Val(j) - Val(lj), t - lt), Int2Rat(MicroPerUnit))
         IN  [ok |-> TRUE, val |-> Some(max2(q, Zero)),
              last_j |-> j, last_t |-> t]

\* The closure _linux of lines 144-152, called when the closure variables
\* hold (lj, lt), the counter read gives j and time.time() gives t.  The
\* result carries the closure variables after the call.
_linux(lj, lt, j, t) ==
    IF IsNone(j) \/ IsNone(lj)
    THEN [ok |-> TRUE, val |-> None, last_j |-> lj, last_t |-> lt]
    ELSE IF t - lt = 0
    THEN [ok |-> FALSE, exc |-> "ZeroDivisionError",
          last_j |-> lj, last_t |-> lt]
    ELSE LET q == RatDiv(Rat(Val(j) - Val(lj), t - lt), Int2Rat(MicroPerUnit))
         IN  [ok |-> TRUE, val |-> Some(max2(q, Zero)),
              last_j |-> j, last_t |-> t]

\* --- macOS: powermetrics -------------------------------------------------
\* Outcome of the first subprocess (JSON output): the process timed out,
\* exited with a non-zero status (sudo -n without rights), printed
\* something json.loads or the key lookup rejects, or printed a document
\* whose smc.package_watts is watts.
JsonOuts ==
    { [kind |-> "timeout", watts |-> Zero],
      [kind |-> "exit",    watts |-> Zero],
      [kind |-> "garbage", watts |-> Zero],
      [kind |-> "ok",      watts |-> Rat(5, 2)] }

\* A line of the text output, as the parser sees it: whether it contains a
\* "W", whether it contains one of the four keys, and its tokens, each
\* None when float() rejects it and the parsed number otherwise.
TextLines ==
    { [hasW |-> FALSE, hasKey |-> TRUE,  tokens |-> <<None, Some(Int2Rat(9))>>],
      [hasW |-> TRUE,  hasKey |-> FALSE, tokens |-> <<None, Some(Int2Rat(7))>>],
      [hasW |-> TRUE,  hasKey |-> TRUE,  tokens |-> <<None, None>>],
      [hasW |-> TRUE,  hasKey |-> TRUE,  tokens |-> <<None, None, Some(Rat(3, 2))>>] }

\* Lines 111-115: the first token float() accepts.
RECURSIVE FirstNumber(_)
FirstNumber(tokens) ==
    IF Len(tokens) = 0 THEN None
    ELSE IF ~IsNone(Head(tokens)) THEN Head(tokens)
    ELSE FirstNumber(Tail(tokens))

\* Lines 104-115: the first line with a "W" and a key that has a number.
RECURSIVE ParseText(_)
ParseText(lines) ==
    IF Len(lines) = 0 THEN None
    ELSE LET l == Head(lines)
             n == IF l.hasW /\ l.hasKey THEN FirstNumber(l.tokens) ELSE None
         IN  IF ~IsNone(n) THEN n ELSE ParseText(Tail(lines))

\* Outcome of the second subprocess (text output).
TextOuts ==
    { [kind |-> "timeout", lines |-> << >>],
      [kind |-> "exit",    lines |-> << >>] }
    \cup { [kind |-> "ok", lines |-> <<l>>] : l \in TextLines }
    \cup { [kind |-> "ok", lines |-> <<l1, l2>>] :
                l1 \in { l \in TextLines : IsNone(FirstNumber(l.tokens)) },
                l2 \in TextLines }

\* The subprocesses one call of _powermetrics_watts_mac() starts, in order:
\* the return of line 92 ends the call before the second check_output.
_powermetrics_calls(jo, to) ==
    IF jo.kind = "ok" THEN <<"json">> ELSE <<"json", "text">>

\* A reader without the fall-back to the text output.
_powermetrics_json_only(jo, to) ==
    IF jo.kind = "ok" THEN Some(jo.watts) ELSE None

\* _powermetrics_watts_mac(): JSON first, text only when JSON failed.
_powermetrics_watts_mac(jo, to) ==
    IF jo.kind = "ok" THEN Some(jo.watts)
    ELSE IF to.kind = "ok" THEN ParseText(to.lines)
    ELSE None

\* --- Windows: battery ----------------------------------------------------
\* psutil's sentinels for secsleft.
POWER_TIME_UNKNOWN == -1
POWER_TIME_UNLIMITED == -2

\* What psutil.sensors_battery() gives: it raises, returns None (no
\* battery) or a battery; energy_full is the optional field of line 130.
Batteries ==
    { [kind |-> "raises"], [kind |-> "none"] }
    \cup { [kind |-> "batt", power_plugged |-> p, secsleft |-> s,
            percent |-> 15, energy_full |-> e] :
                p \in BOOLEAN,
                s \in {POWER_TIME_UNLIMITED, POWER_TIME_UNKNOWN, 0, 3600, 7200},
                e \in {None, Some(4)} }

\* _battery_watts_windows(): every exception becomes None.
_battery_watts_windows(b) ==
    IF b.kind = "raises" THEN None
    ELSE IF b.kind = "none" THEN None
    ELSE IF b.power_plugged
            \/ b.secsleft \in {POWER_TIME_UNLIMITED, POWER_TIME_UNKNOWN}
    THEN None
    ELSE IF IsNone(b.energy_full) THEN None
    ELSE IF b.secsleft = 0 THEN None   \* ZeroDivisionError, caught line 135
    ELSE Some(RatDiv(RatMul(Int2Rat(Val(b.energy_full)),
                            Rat(b.percent, 100)),
                     Rat(b.secsleft, 3600)))


\* ------------------------------------------------------------------------
\* Inputs of the sampling loop
\* ------------------------------------------------------------------------
\* psutil.cpu_percent(interval=0.8), in percent.
CpuValues == {Int2Rat(0), Rat(25, 2)}
\* psutil.virtual_memory().used / 1024**2, in MB.
RamValues == {Rat(3073, 2)}
\* Change of time.time(), in seconds, over one cpu_percent call.  The wall
\* clock is not monotonic: it can stand still or be set back.
ClockSteps == {-1, 0, 1}

\* Two runs of the script on one machine, with the same RUN_DIR.
Runs == {"a", "b"}

\* The wall clock counts parts of a second; the format of line 45 keeps
\* whole seconds only.
TicksPerSecond == 2

\* timestamp (lines 44-45): the time of day cut to the second.
timestamp(t) == t \div TicksPerSecond

\* Line 221: the file name is made of the start stamp only.
file_path(ts) == <<"summary_", ts, ".txt">>

\* What one tick of a run records (lines 185-186): a CPU and a RAM sample.
RunSamples == {<<Int2Rat(0), Int2Rat(1024)>>, <<Rat(25, 2), Rat(3073, 2)>>}

\* A process that has not reached line 170 yet.
NewRun == [pc |-> "start", running |-> TRUE, cpu_hist |-> << >>,
           ram_hist |-> << >>, start_ts |-> None, summary |-> None]

\* ------------------------------------------------------------------------
\* State
\* ------------------------------------------------------------------------
VARIABLES
    sysname,     \* platform.system()
    pc,          \* position of the main control flow
    running,     \* the flag of line 178
    cpu_hist,    \* line 166
    ram_hist,    \* line 167
    w_hist,      \* line 168
    last_j,      \* closure variable of _linux (line 141)
    last_t,      \* closure variable of _linux (line 142)
    w,           \* line 187
    clock,       \* time.time()
    start_ts,    \* line 170
    end_ts,      \* line 192
    cpu_stats,   \* (cpu_min, cpu_max, cpu_avg), line 201
    ram_stats,   \* (ram_min, ram_max, ram_avg), line 202
    w_stats,     \* (w_min, w_max, w_avg), lines 203-206
    summary,     \* line 208
    file,        \* the file written at line 222
    exc,         \* the exception that ended the script, if any
    ticks,       \* history: completed iterations of the loop
    stop_seen,   \* history: ticks when line 184 found running false
    calls,       \* history: calls of get_watts so far
    valued,      \* history: calls of get_watts that returned a value
    call,        \* history: inputs and outcome of this tick's get_watts call
    interrupts,  \* history: SIGINT deliveries so far
    procs,       \* the runs of the script on one machine, each with its state
    wall,        \* datetime.now() of that machine, in parts of a second
    run_dir      \* the files of RUN_DIR (line 36)

hists == <<cpu_hist, ram_hist, w_hist>>
backend == <<last_j, last_t>>
results == <<end_ts, cpu_stats, ram_stats, w_stats, summary, file>>
history == <<ticks, stop_seen, calls, valued, call>>
fleet == <<procs, wall, run_dir>>
vars == <<sysname, pc, running, hists, backend, w, clock, start_ts, results,
          exc, history, interrupts, fleet>>

NoCall == [sys |-> "none"]

\* The state when line 182 has run: the backend is constructed (line 163),
\* the series are empty, the start time is taken and the handler is
\* installed.  On Linux the constructor reads the counter once.
Init ==
    /\ sysname \in SYSNAMES
    /\ pc = "while"
    /\ running = TRUE
    /\ cpu_hist = << >>
    /\ ram_hist = << >>
    /\ w_hist = << >>
    /\ clock = 0
    /\ last_t = 0
    /\ \E rd \in RaplReads :
          last_j = IF sysname = "Linux" THEN _rapl_joules_linux(rd) ELSE None
    /\ w = None
    /\ start_ts = 0
    /\ end_ts = None
    /\ cpu_stats = None
    /\ ram_stats = None
    /\ w_stats = None
    /\ summary = None
    /\ file = None
    /\ exc = "none"
    /\ ticks = 0
    /\ stop_seen = -1
    /\ calls = 0
    /\ valued = 0
    /\ call = NoCall
    /\ interrupts = 0
    /\ procs = [r \in Runs |-> NewRun]
    /\ wall = 0
    /\ run_dir = {}

Terminated == pc \in {"done", "crashed"}

\* ------------------------------------------------------------------------
\* The SIGINT handler (lines 179-182)
\* ------------------------------------------------------------------------
\* A handler that ends the loop at once, as the default KeyboardInterrupt
\* would: the tick in progress is abandoned.
_stop_abort ==
    /\ ~Terminated
    /\ interrupts < MaxInterrupts
    /\ running' = FALSE
    /\ interrupts' = interrupts + 1
    /\ pc' = IF pc \in {"while", "cpu", "ram", "watts", "if_w"}
             THEN "end_ts" ELSE pc
    /\ UNCHANGED <<fleet, sysname, hists, backend, w, clock, start_ts, results,
                   exc, history>>

\* A handler that also records the sample of the tick it interrupts.
_stop_records ==
    /\ ~Terminated
    /\ interrupts < MaxInterrupts
    /\ running' = FALSE
    /\ interrupts' = interrupts + 1
    /\ w_hist' = IF ~IsNone(w) THEN Append(w_hist, Val(w)) ELSE w_hist
    /\ UNCHANGED <<fleet, sysname, pc, cpu_hist, ram_hist, backend, w, clock,
                   start_ts, results, exc, history>>

_stop ==
    /\ ~Terminated
    /\ interrupts < MaxInterrupts
    /\ running' = FALSE
    /\ interrupts' = interrupts + 1
    /\ UNCHANGED <<fleet, sysname, pc, hists, backend, w, clock, start_ts, results,
                   exc, history>>

\* ------------------------------------------------------------------------
\* The sampling loop (lines 184-189)
\* ------------------------------------------------------------------------
\* Line 184, running is true: the next tick starts.
LoopEnter ==
    /\ pc = "while"
    /\ running
    /\ ticks < MaxTicks
    /\ pc' = "cpu"
    /\ UNCHANGED <<fleet, sysname, running, hists, backend, w, clock, start_ts,
                   results, exc, history, interrupts>>

\* A loop that can end without a stop request.
LoopExit_unrequested ==
    /\ pc = "while"
    /\ pc' = "end_ts"
    /\ stop_seen' = ticks
    /\ UNCHANGED <<fleet, sysname, running, hists, backend, w, clock, start_ts,
                   results, exc, ticks, calls, valued, call,
                   interrupts>>

\* Line 184, running is false: the loop ends.
LoopExit ==
    /\ pc = "while"
    /\ ~running
    /\ pc' = "end_ts"
    /\ stop_seen' = ticks
    /\ UNCHANGED <<fleet, sysname, running, hists, backend, w, clock, start_ts,
                   results, exc, ticks, calls, valued, call,
                   interrupts>>

\* Line 185: the blocking CPU measurement; the clock moves.
SampleCpu ==
    /\ pc = "cpu"
    /\ \E c \in CpuValues, d \in ClockSteps :
          /\ cpu_hist' = Append(cpu_hist, c)
          /\ clock' = clock + d
    /\ pc' = "ram"
    /\ UNCHANGED <<fleet, sysname, running, ram_hist, w_hist, backend, w, start_ts,
                   results, exc, history, interrupts>>

\* A tick that reads the memory but does not record it.
SampleRam_unrecorded ==
    /\ pc = "ram"
    /\ pc' = "watts"
    /\ UNCHANGED <<fleet, sysname, running, hists, backend, w, clock, start_ts,
                   results, exc, history, interrupts>>

\* Line 186.
SampleRam ==
    /\ pc = "ram"
    /\ \E m \in RamValues : ram_hist' = Append(ram_hist, m)
    /\ pc' = "watts"
    /\ UNCHANGED <<fleet, sysname, running, cpu_hist, w_hist, backend, w, clock,
                   start_ts, results, exc, history, interrupts>>

\* Line 187 on Linux: the closure _linux.
GetWattsLinux ==
    /\ pc = "watts"
    /\ sysname = "Linux"
    /\ \E rd \in RaplReads :
          LET j == _rapl_joules_linux(rd)
              r == _linux(last_j, last_t, j, clock)
          IN  /\ last_j' = r.last_j
              /\ last_t' = r.last_t
              /\ call' = [sys |-> "Linux", j |-> j, t |-> clock,
                          prev_j |-> last_j, prev_t |-> last_t,
                          raised |-> ~r.ok]
              /\ IF r.ok
                 THEN /\ w' = r.val
                      /\ valued' = valued + (IF IsNone(r.val) THEN 0 ELSE 1)
                      /\ pc' = "if_w"
                      /\ exc' = exc
                 ELSE /\ w' = w
                      /\ valued' = valued
                      /\ pc' = "crashed"
                      /\ exc' = r.exc
    /\ calls' = calls + 1
    /\ UNCHANGED <<fleet, sysname, running, hists, clock, start_ts, results, ticks,
                   stop_seen, interrupts>>

\* Line 187 on macOS.
GetWattsMac ==
    /\ pc = "watts"
    /\ sysname = "Darwin"
    /\ \E jo \in JsonOuts, to \in TextOuts :
          /\ w' = _powermetrics_watts_mac(jo, to)
          /\ call' = [sys |-> "Darwin", json |-> jo,
                      ran |-> _powermetrics_calls(jo, to),
                      text |-> IF Len(_powermetrics_calls(jo, to)) = 2
                               THEN to
                               ELSE [kind |-> "notrun", lines |-> << >>],
                      raised |-> FALSE]
    /\ valued' = valued + (IF IsNone(w') THEN 0 ELSE 1)
    /\ pc' = "if_w"
    /\ calls' = calls + 1
    /\ UNCHANGED <<fleet, sysname, running, hists, backend, clock, start_ts, results,
                   exc, ticks, stop_seen, interrupts>>

\* Line 187 on Windows.
GetWattsWindows ==
    /\ pc = "watts"
    /\ sysname = "Windows"
    /\ \E b \in Batteries :
          /\ w' = _battery_watts_windows(b)
          /\ call' = [sys |-> "Windows", batt |-> b.kind, raised |-> FALSE]
    /\ valued' = valued + (IF IsNone(w') THEN 0 ELSE 1)
    /\ pc' = "if_w"
    /\ calls' = calls + 1
    /\ UNCHANGED <<fleet, sysname, running, hists, backend, clock, start_ts, results,
                   exc, ticks, stop_seen, interrupts>>

\* Line 187 elsewhere: the lambda of line 161.
GetWattsFallback ==
    /\ pc = "watts"
    /\ sysname = "Other"
    /\ w' = None
    /\ call' = [sys |-> "Other", raised |-> FALSE]
    /\ valued' = valued + (IF IsNone(w') THEN 0 ELSE 1)
    /\ pc' = "if_w"
    /\ calls' = calls + 1
    /\ UNCHANGED <<fleet, sysname, running, hists, backend, clock, start_ts, results,
                   exc, ticks, stop_seen, interrupts>>

\* A loop that tests the truth value of w ("if w:"), which drops 0.0.
RecordWatts_truthy ==
    /\ pc = "if_w"
    /\ w_hist' = IF ~IsNone(w) /\ ~IsZero(Val(w))
                 THEN Append(w_hist, Val(w)) ELSE w_hist
    /\ ticks' = ticks + 1
    /\ call' = NoCall
    /\ pc' = "while"
    /\ UNCHANGED <<fleet, sysname, running, cpu_hist, ram_hist, backend, w, clock,
                   start_ts, results, exc, stop_seen, calls, valued,
                   interrupts>>

\* Lines 188-189; the iteration is complete.
RecordWatts ==
    /\ pc = "if_w"
    /\ w_hist' = IF ~IsNone(w) THEN Append(w_hist, Val(w)) ELSE w_hist
    /\ ticks' = ticks + 1
    /\ call' = NoCall
    /\ pc' = "while"
    /\ UNCHANGED <<fleet, sysname, running, cpu_hist, ram_hist, backend, w, clock,
                   start_ts, results, exc, stop_seen, calls, valued,
                   interrupts>>


\* ------------------------------------------------------------------------
\* summarise (lines 192-223)
\* ------------------------------------------------------------------------
\* Line 192: the end time.
TakeEndTs ==
    /\ pc = "end_ts"
    /\ end_ts' = Some(clock)
    /\ pc' = "stats_cpu"
    /\ UNCHANGED <<fleet, sysname, running, hists, backend, w, clock, start_ts,
                   cpu_stats, ram_stats, w_stats, summary, file, exc, history,
                   interrupts>>

\* Line 201.
StatsCpu ==
    /\ pc = "stats_cpu"
    /\ LET r == _stats(cpu_hist)
       IN  IF r.ok
           THEN cpu_stats' = r.val /\ pc' = "stats_ram" /\ exc' = exc
           ELSE cpu_stats' = cpu_stats /\ pc' = "crashed" /\ exc' = r.exc
    /\ UNCHANGED <<fleet, sysname, running, hists, backend, w, clock, start_ts,
                   end_ts, ram_stats, w_stats, summary, file, history,
                   interrupts>>

\* Line 202.
StatsRam ==
    /\ pc = "stats_ram"
    /\ LET r == _stats(ram_hist)
       IN  IF r.ok
           THEN ram_stats' = r.val /\ pc' = "stats_w" /\ exc' = exc
           ELSE ram_stats' = ram_stats /\ pc' = "crashed" /\ exc' = r.exc
    /\ UNCHANGED <<fleet, sysname, running, hists, backend, w, clock, start_ts,
                   end_ts, cpu_stats, w_stats, summary, file, history,
                   interrupts>>

\* Lines 203-206: only the watts series is tested for emptiness.
StatsWatts ==
    /\ pc = "stats_w"
    /\ LET r == IF Len(w_hist) # 0 THEN _stats(w_hist)
                ELSE Return(<<NA, NA, NA>>)
       IN  IF r.ok
           THEN w_stats' = r.val /\ pc' = "summary" /\ exc' = exc
           ELSE w_stats' = w_stats /\ pc' = "crashed" /\ exc' = r.exc
    /\ UNCHANGED <<fleet, sysname, running, hists, backend, w, clock, start_ts,
                   end_ts, cpu_stats, ram_stats, summary, file, history,
                   interrupts>>

\* Lines 193-196 parse the two UTC stamps as local times: when the local
\* zone changes its offset between the two readings, the difference of the
\* parsed times is the elapsed time moved by that change.
DstShifts == {-3600, 0, 3600}

duration_s(end, start, shift) == end - start + shift

\* The encoding of sys.stdout, and the two characters of the output that
\* are not ASCII: the middle dot of the summary (lines 213-215) and the
\* arrow of line 223.
Encodings == {"utf-8", "cp1252", "ascii"}
MiddleDot == "U+00B7"
Arrow == "U+2192"
CanEncode(enc, ch) ==
    CASE enc = "utf-8"  -> TRUE
      [] enc = "cp1252" -> ch = MiddleDot
      [] OTHER          -> FALSE

\* Lines 193-196 and 208-219: the duration, the text of the report, one
\* field per line of the layout, and its print, which raises when stdout
\* cannot encode the middle dot.
BuildSummary ==
    /\ pc = "summary"
    /\ \E shift \in DstShifts :
          summary' = Some([started  |-> start_ts,
                           ended    |-> Val(end_ts),
                           duration |-> duration_s(Val(end_ts), start_ts,
                                                   shift),
                           os       |-> sysname,
                           cpu      |-> cpu_stats,
                           ram      |-> ram_stats,
                           watts    |-> w_stats])
    /\ \E enc \in Encodings :
          IF CanEncode(enc, MiddleDot)
          THEN pc' = "write" /\ exc' = exc
          ELSE pc' = "crashed" /\ exc' = "UnicodeEncodeError"
    /\ UNCHANGED <<fleet, sysname, running, hists, backend, w, clock, start_ts,
                   end_ts, cpu_stats, ram_stats, w_stats, file, history,
                   interrupts>>

\* Lines 221-223: the file is named after the start time and written; the
\* print of line 223 raises when stdout, which did encode the summary,
\* cannot encode the arrow.
WriteFile ==
    /\ pc = "write"
    /\ file' = Some([name |-> start_ts, text |-> Val(summary)])
    /\ \E enc \in {e \in Encodings : CanEncode(e, MiddleDot)} :
          IF CanEncode(enc, Arrow)
          THEN pc' = "done" /\ exc' = exc
          ELSE pc' = "crashed" /\ exc' = "UnicodeEncodeError"
    /\ UNCHANGED <<fleet, sysname, running, hists, backend, w, clock, start_ts,
                   end_ts, cpu_stats, ram_stats, w_stats, summary, history,
                   interrupts>>

Next ==
    \/ _stop
    \/ LoopEnter
    \/ LoopExit
    \/ SampleCpu
    \/ SampleRam
    \/ GetWattsLinux
    \/ GetWattsMac
    \/ GetWattsWindows
    \/ GetWattsFallback
    \/ RecordWatts
    \/ TakeEndTs
    \/ StatsCpu
    \/ StatsRam
    \/ StatsWatts
    \/ BuildSummary
    \/ WriteFile

Spec == Init /\ [][Next]_vars

\* ------------------------------------------------------------------------
\* Several runs at the same time
\* ------------------------------------------------------------------------
\* The state of one run; the runs share the wall clock and RUN_DIR only.
single == <<sysname, pc, running, hists, backend, w, clock, start_ts,
            results, exc, history, interrupts>>

\* str(n) of an int.
IntStr(n) == IF n < 0 THEN <<"-">> \o IntChars(-n) ELSE IntChars(n)

\* The stamp of line 45 for second ts of the minute in which the runs
\* happen: the fields down to the minute, then the seconds.
strftime(ts) ==
    <<"Y", "Y", "Y", "Y", "-", "m", "m", "-", "d", "d", "_", "H", "H", "-",
      "M", "M", "-">>
        \o Digits(ts, 2)

\* platform.system() and platform.release() as printed at line 211.
SysChars(name) ==
    CASE name = "Linux"   -> <<"L", "i", "n", "u", "x">>
      [] name = "Darwin"  -> <<"D", "a", "r", "w", "i", "n">>
      [] name = "Windows" -> <<"W", "i", "n", "d", "o", "w", "s">>
      [] OTHER            -> <<"O", "t", "h", "e", "r">>
release == <<"1", ".", "0">>

\* The labels of lines 208-215.
LblStarted ==
    <<"R", "u", "n", " ", "s", "t", "a", "r", "t", "e", "d", " ", ":", " ">>
LblEnded ==
    <<"R", "u", "n", " ", "e", "n", "d", "e", "d", " ", " ", " ", ":", " ">>
LblDuration ==
    <<"D", "u", "r", "a", "t", "i", "o", "n", " ", " ", " ", " ", ":", " ">>
LblOs ==
    <<"O", "S", " ", " ", " ", " ", " ", " ", " ", " ", " ", " ", ":", " ">>
LblCpu ==
    <<"C", "P", "U", " ", "u", "s", "a", "g", "e", " ", "%", " ", ":", " ">>
LblRam ==
    <<"R", "A", "M", " ", "u", "s", "e", "d", " ", "M", "B", " ", ":", " ">>
LblWatts ==
    <<"W", "a", "t", "t", "s", " ", " ", " ", " ", " ", " ", " ", ":", " ">>
Newline == <<"\n">>

\* One line of statistics (lines 213-215).
StatsLine(label, st) ==
    label \o <<"m", "i", "n", " ">> \o st[1]
          \o <<" ", MiddleDot, " ", "m", "a", "x", " ">> \o st[2]
          \o <<" ", MiddleDot, " ", "a", "v", "g", " ">> \o st[3]
          \o Newline

\* The f-string of lines 208-216 for the fields of a summary.
render(sm) ==
    LblStarted \o strftime(sm.started) \o Newline
        \o LblEnded \o strftime(sm.ended) \o Newline
        \o LblDuration \o IntStr(sm.duration) \o <<" ", "s">> \o Newline
        \o LblOs \o SysChars(sm.os) \o <<" ">> \o release \o Newline
        \o Newline
        \o StatsLine(LblCpu, sm.cpu)
        \o StatsLine(LblRam, sm.ram)
        \o StatsLine(LblWatts, sm.watts)

\* str.encode("utf-8") (line 222): the middle dot takes two bytes, the
\* other characters of the summary one.
RECURSIVE utf8(_)
utf8(cs) ==
    IF Len(cs) = 0 THEN << >>
    ELSE IF Len(cs) = 1
    THEN (IF cs[1] = MiddleDot THEN <<"0xC2", "0xB7">> ELSE cs)
    ELSE LET h == Len(cs) \div 2
         IN  utf8(SubSeq(cs, 1, h)) \o utf8(SubSeq(cs, h + 1, Len(cs)))

\* The content of a file after data is written at its start: what the file
\* held beyond the length of data stays.
Overlay(old, data) == data \o SubSeq(old, Len(data) + 1, Len(old))

\* The content of the file of that name in RUN_DIR.
Content(dir, name) == (CHOOSE f \in dir : f.name = name).text

\* Time passes on the wall clock.
WallAdvance ==
    /\ wall < MaxWall
    /\ wall' = wall + 1
    /\ UNCHANGED <<single, procs, run_dir>>

\* Lines 163-182 in run r: the series are empty, the start stamp is taken
\* (line 170) and the handler is installed.
RunStart(r) ==
    /\ procs[r].pc = "start"
    /\ procs' = [procs EXCEPT ![r].start_ts = Some(timestamp(wall)),
                              ![r].pc = "while"]
    /\ UNCHANGED <<single, wall, run_dir>>

\* SIGINT delivered to run r (lines 179-181), between two ticks or inside
\* one.
RunStop(r) ==
    /\ procs[r].pc \in {"while", "body"}
    /\ procs[r].running
    /\ procs' = [procs EXCEPT ![r].running = FALSE]
    /\ UNCHANGED <<single, wall, run_dir>>

\* Line 184 in run r: the flag is true and the body is entered.
RunLoopEnter(r) ==
    /\ procs[r].pc = "while"
    /\ procs[r].running
    /\ Len(procs[r].cpu_hist) < MaxRunTicks
    /\ procs' = [procs EXCEPT ![r].pc = "body"]
    /\ UNCHANGED <<single, wall, run_dir>>

\* The body of the loop of run r (lines 185-189) where no power backend
\* exists: get_watts returns None and w_hist stays empty.  The flag is not
\* read here.
RunTick(r) ==
    /\ procs[r].pc = "body"
    /\ \E s \in RunSamples :
          procs' = [procs EXCEPT
                       ![r].cpu_hist = Append(procs[r].cpu_hist, s[1]),
                       ![r].ram_hist = Append(procs[r].ram_hist, s[2]),
                       ![r].pc = "while"]
    /\ UNCHANGED <<single, wall, run_dir>>

\* Lines 184 and 192-219 in run r: the loop ends, the end stamp is taken and
\* the text of the report is built and printed; _stats raises on an empty
\* series and print on a stdout that cannot encode the middle dot.
RunSummarise(r) ==
    /\ procs[r].pc = "while"
    /\ ~procs[r].running
    /\ LET p   == procs[r]
           c   == _stats(p.cpu_hist)
           m   == _stats(p.ram_hist)
           e   == timestamp(wall)
       IN  IF c.ok /\ m.ok
           THEN \E shift \in DstShifts, enc \in Encodings :
                  procs' = [procs EXCEPT
                    ![r].summary =
                        Some([started  |-> Val(p.start_ts),
                              ended    |-> e,
                              duration |-> duration_s(e, Val(p.start_ts),
                                                      shift),
                              os       |-> sysname,
                              cpu      |-> c.val,
                              ram      |-> m.val,
                              watts    |-> <<NA, NA, NA>>]),
                    ![r].pc = IF CanEncode(enc, MiddleDot) THEN "write"
                              ELSE "crashed"]
           ELSE procs' = [procs EXCEPT ![r].pc = "crashed"]
    /\ UNCHANGED <<single, wall, run_dir>>

\* Line 222 in run r, first half: write_text opens the file for writing,
\* which creates it or cuts it to length 0.
RunOpen(r) ==
    /\ procs[r].pc = "write"
    /\ LET name == file_path(Val(procs[r].start_ts))
       IN  run_dir' = {f \in run_dir : f.name # name}
                         \cup {[name |-> name, text |-> << >>]}
    /\ procs' = [procs EXCEPT ![r].pc = "writing"]
    /\ UNCHANGED <<single, wall>>

\* Lines 222-223 in run r, second half: the encoded summary is written at
\* the start of the file and the file is closed; the print of line 223
\* raises when stdout cannot encode the arrow.
RunWrite(r) ==
    /\ procs[r].pc = "writing"
    /\ LET name == file_path(Val(procs[r].start_ts))
           data == utf8(render(Val(procs[r].summary)))
       IN  run_dir' = {f \in run_dir : f.name # name}
                         \cup {[name |-> name,
                                text |-> Overlay(Content(run_dir, name),
                                                 data)]}
    /\ \E enc \in {e \in Encodings : CanEncode(e, MiddleDot)} :
          procs' = [procs EXCEPT
                       ![r].pc = IF CanEncode(enc, Arrow) THEN "done"
                                 ELSE "crashed"]
    /\ UNCHANGED <<single, wall>>

InitRuns == Init /\ sysname = "Other"

NextRuns ==
    \/ WallAdvance
    \/ \E r \in Runs : RunStart(r)
    \/ \E r \in Runs : RunStop(r)
    \/ \E r \in Runs : RunLoopEnter(r)
    \/ \E r \in Runs : RunTick(r)
    \/ \E r \in Runs : RunSummarise(r)
    \/ \E r \in Runs : RunOpen(r)
    \/ \E r \in Runs : RunWrite(r)

SpecRuns == InitRuns /\ [][NextRuns]_vars


\* ------------------------------------------------------------------------
\* Properties
\* ------------------------------------------------------------------------
\* Positions of the main control flow from the end of the loop on.
FinalPcs ==
    {"end_ts", "stats_cpu", "stats_ram", "stats_w", "summary", "write", "done"}
\* Positions inside an iteration of the loop.
TickPcs == {"cpu", "ram", "watts", "if_w"}

Reported == pc = "done" /\ ~IsNone(file)

\* C1: once an interrupt has been delivered, the run never ends in any other
\* way than with the report written, whatever was sampled so far; in
\* particular the aggregation does not fail on empty CPU/RAM series.
C1_InterruptLeadsToReport ==
    (~running /\ Terminated) => Reported

\* C2: if line 184 observed the stop request after exactly N completed
\* ticks, the run that ends has written a report and its CPU and RAM series
\* have length N, for every N >= 0.
C2_StopAfterNTicksGivesNSamples ==
    (stop_seen >= 0 /\ Terminated) =>
        /\ Reported
        /\ Len(cpu_hist) = stop_seen
        /\ Len(ram_hist) = stop_seen

\* C3: at every evaluation of the loop condition and throughout
\* finalization, the CPU series and the RAM series are as long as the
\* number of completed ticks, and the watts series is not longer.
C3_SeriesLengths ==
    (pc \in {"while"} \cup FinalPcs) =>
        /\ Len(cpu_hist) = ticks
        /\ Len(ram_hist) = ticks
        /\ Len(w_hist) <= ticks

\* A tick boundary reached after an interrupt, with two completed ticks of
\* which one recorded a watt value and one did not.
C3_Witness ==
    /\ pc = "while"
    /\ ticks = 2
    /\ Len(cpu_hist) = 2
    /\ Len(w_hist) = 1
    /\ interrupts >= 1

\* C4: no call of a power backend raises, and what a call returns is
\* "unavailable" or a watt value that is not negative.
C4_BackendNeverRaises ==
    (call.sys # "none") =>
        /\ ~call.raised
        /\ (pc = "if_w" => (IsNone(w) \/ RatLeq(Zero, Val(w))))

\* C5: aggregating an empty series gives "N/A" for min, max and mean and
\* never raises, for each of the three metrics.
C5_EmptySeriesGivesNA ==
    /\ (pc \in {"stats_ram", "stats_w", "summary", "write", "done", "crashed"}
            /\ stop_seen >= 0 /\ Len(cpu_hist) = 0)
          => cpu_stats = <<NA, NA, NA>>
    /\ (pc \in {"stats_w", "summary", "write", "done"} /\ Len(ram_hist) = 0)
          => ram_stats = <<NA, NA, NA>>
    /\ (pc \in {"summary", "write", "done"} /\ Len(w_hist) = 0)
          => w_stats = <<NA, NA, NA>>
    /\ exc \notin {"ValueError", "StatisticsError"}


\* A call of the Linux backend has just come back (returned or raised).
LinuxCallDone == call.sys = "Linux" /\ pc \in {"if_w", "crashed"}
\* Both the reading of this call and the stored previous one are available.
BothReadings == LinuxCallDone /\ ~IsNone(call.j) /\ ~IsNone(call.prev_j)

\* C6 as stated: the first call of the Linux backend after construction
\* returns "unavailable", also when the counter was readable at
\* construction and at the call.
C6_FirstCallUnavailable ==
    (LinuxCallDone /\ calls = 1 /\ pc = "if_w") => IsNone(w)

\* C6 as amended: the first call of the Linux backend returns "unavailable"
\* exactly when the counter reading taken at construction or the one taken
\* by the call is unavailable; with both readable the first call already
\* differences against the construction-time reading.
C6_FirstCallUnavailableIffNoReading ==
    (LinuxCallDone /\ calls = 1) =>
        ((~call.raised /\ IsNone(w))
            <=> (IsNone(call.j) \/ IsNone(call.prev_j)))

\* The first call has returned a watt value.
C6_Witness ==
    /\ LinuxCallDone
    /\ calls = 1
    /\ pc = "if_w"
    /\ ~IsNone(w)
    /\ call.prev_j = Some(1000000)
    /\ call.j = Some(2150000)

\* The float wv is the quotient dj / (dt * 1000000) of the ints dj and dt
\* up to the rounding of the two float divisions, a relative error of at
\* most 2^-51: |wv * dt * 1000000 - dj| * 2^51 <= |dj|, computed exactly.
IsQuotient(wv, dj, dt) ==
    LET scaled == <<1, BigMul(BigMul(wv[2], Big(Abs(dt))), Big(MicroPerUnit)),
                    wv[3]>>
        diff   == RatAdd(scaled, Int2Rat(-Abs(dj)))
    IN  /\ wv[1] = 1
        /\ MagCmp(<<1, diff[2], diff[3] + MantBits - 2>>,
                  Int2Rat(Abs(dj))) <= 0

\* The float wv is max(dj / dt / 1000000, 0.0): the quotient when it is
\* positive, a zero when dj is 0, and 0.0 when the quotient is negative.
IsClampedQuotient(wv, dj, dt) ==
    IF dj = 0 THEN IsZero(wv)
    ELSE IF (dj > 0) = (dt > 0) THEN IsQuotient(wv, dj, dt)
    ELSE wv = Zero

\* C7: on a call with both readings available the backend returns
\* max(0, (j - last_j) / (t - last_t)) converted from microjoules to joules,
\* and afterwards the stored reading and time are those of the call.
C7_LinuxWattsFormula ==
    BothReadings =>
        LET dj == Val(call.j) - Val(call.prev_j)
            dt == call.t - call.prev_t
        IN  /\ ~call.raised
            /\ dt # 0
            /\ ~IsNone(w)
            /\ IsClampedQuotient(Val(w), dj, dt)
            /\ last_j = call.j
            /\ last_t = call.t

\* C8: on a call with both readings available and the counter not above
\* the stored reading the backend returns exactly 0; it never returns a
\* negative value.
C8_RolloverClampsToZero ==
    /\ (BothReadings /\ Val(call.j) <= Val(call.prev_j))
          => (~call.raised /\ w = Some(Zero))
    /\ (LinuxCallDone /\ pc = "if_w" /\ ~IsNone(w)) => RatLeq(Zero, Val(w))


IsPrefix(xs, ys) == Len(xs) <= Len(ys) /\ SubSeq(ys, 1, Len(xs)) = xs

\* C9: cancellation is cooperative.  The flag, once false, stays false; an
\* interrupt changes nothing but the flag, a further interrupt nothing at
\* all; the loop is left for finalization only from the loop condition,
\* with the flag false and every started tick complete (its CPU and RAM
\* samples recorded and its backend call made); once the loop condition has
\* seen the flag, no tick starts and no series changes; no series ever
\* loses or rewrites a sample.
C9_CooperativeCancellation ==
    [][ /\ (~running => ~running')
        /\ (interrupts' # interrupts) =>
              /\ ~running'
              /\ UNCHANGED <<sysname, pc, hists, backend, w, clock, start_ts,
                             results, exc, history>>
        /\ (pc \notin FinalPcs /\ pc' \in FinalPcs) =>
              /\ pc = "while" /\ ~running /\ pc' = "end_ts"
              /\ Len(cpu_hist') = ticks'
              /\ Len(ram_hist') = ticks'
              /\ calls' = ticks'
        /\ (pc = "while" /\ ~running) => pc' \notin TickPcs
        /\ (stop_seen >= 0) =>
              /\ pc' \notin TickPcs \cup {"while"}
              /\ UNCHANGED <<hists, calls, valued, ticks, stop_seen>>
        /\ IsPrefix(cpu_hist, cpu_hist')
        /\ IsPrefix(ram_hist, ram_hist')
        /\ IsPrefix(w_hist, w_hist')
      ]_vars

\* The stop request arrived during the second tick (a tick only starts with
\* the flag true), was repeated, and the tick has done its three reads.
C9_Witness ==
    /\ pc = "if_w"
    /\ ~running
    /\ interrupts = 2
    /\ ticks = 1
    /\ Len(cpu_hist) = 2
    /\ Len(ram_hist) = 2
    /\ calls = 2

\* Reading a formatted number back: the value of a decimal numeral.
DigitVal(c) ==
    CASE c = "0" -> 0 [] c = "1" -> 1 [] c = "2" -> 2 [] c = "3" -> 3
      [] c = "4" -> 4 [] c = "5" -> 5 [] c = "6" -> 6 [] c = "7" -> 7
      [] c = "8" -> 8 [] c = "9" -> 9

\* The digits of the numeral read as one natural number, the point skipped.
RECURSIVE DigitsValue(_)
DigitsValue(cs) ==
    IF Len(cs) = 0 THEN 0
    ELSE LET front == SubSeq(cs, 1, Len(cs) - 1)
             c     == cs[Len(cs)]
         IN  IF c \in {".", "-"} THEN DigitsValue(front)
             ELSE 10 * DigitsValue(front) + DigitVal(c)

\* The number of digits after the point.
RECURSIVE Decimals(_)
Decimals(cs) ==
    IF Len(cs) = 0 THEN 0
    ELSE IF cs[Len(cs)] = "." THEN 0
    ELSE IF \E i \in 1..Len(cs) : cs[i] = "."
         THEN 1 + Decimals(SubSeq(cs, 1, Len(cs) - 1))
         ELSE 0

\* The numeral cs with its point removed, as a signed integer.
SignedDigits(cs) ==
    (IF Len(cs) > 0 /\ cs[1] = "-" THEN -1 ELSE 1) * DigitsValue(cs)

\* float(a) <= float(b) for two numerals: the exact comparison of the
\* decimal fractions, which rounding to the nearest float keeps; "-0.0" and
\* "0.0" compare equal.
NumeralLeq(a, b) ==
    SignedDigits(a) * Pow10(Decimals(b)) <= SignedDigits(b) * Pow10(Decimals(a))

\* The numeral cs with one decimal is the float a printed with one
\* decimal: |a - cs| <= 1/20, computed exactly as |20 * a - 2 * (10 * cs)| <= 1.
WithinHalfTenth(a, cs) ==
    LET diff == RatAdd(<<a[1], BigMulSmall(a[2], 20), a[3]>>,
                       Int2Rat(-2 * SignedDigits(cs)))
    IN  /\ Decimals(cs) = 1
        /\ RatLeq(diff, Int2Rat(1))
        /\ RatLeq(Int2Rat(-1), diff)

\* The summary st of the non-empty series hist is ordered, and for a single
\* sample all three fields are equal as floats (-0.0 equals 0.0) and are
\* that sample.
StatsOrdered(hist, st) ==
    (Len(st) = 3 /\ Len(hist) > 0) =>
        /\ NumeralLeq(st[1], st[3])
        /\ NumeralLeq(st[3], st[2])
        /\ (Len(hist) = 1) =>
              /\ NumeralLeq(st[2], st[1])
              /\ WithinHalfTenth(hist[1], st[1])

\* C10: for every non-empty series the aggregated min, mean and max satisfy
\* min <= mean <= max, and for a series of one sample the aggregation
\* succeeds with min = max = mean = that sample.
\* Each summary is examined in the state where it has just been computed;
\* neither it nor its series changes afterwards.
C10_MinMeanMax ==
    /\ (pc = "stats_ram") => StatsOrdered(cpu_hist, cpu_stats)
    /\ (pc = "stats_w") => StatsOrdered(ram_hist, ram_stats)
    /\ (pc = "summary") => StatsOrdered(w_hist, w_stats)
    /\ ~(/\ pc = "crashed"
         /\ stop_seen >= 1
         /\ exc \in {"ValueError", "StatisticsError"})

\* All three summaries are computed; the CPU series has two different
\* samples and the watts series a single one.
C10_Witness ==
    /\ pc = "summary"
    /\ Len(cpu_hist) = 2
    /\ cpu_stats[1] # cpu_stats[2]
    /\ cpu_stats[3] \notin {cpu_stats[1], cpu_stats[2]}
    /\ Len(w_hist) = 1
    /\ w_stats[1] # <<"0", ".", "0">>


\* The text output of a call holds a power figure: a line with a "W" and a
\* key, one of whose tokens is a number.
TextHasFigure(to) ==
    /\ to.kind = "ok"
    /\ \E i \in 1..Len(to.lines) :
          /\ to.lines[i].hasW
          /\ to.lines[i].hasKey
          /\ \E k \in 1..Len(to.lines[i].tokens) :
                ~IsNone(to.lines[i].tokens[k])

\* C12: a call of the macOS backend starts the JSON query first and the
\* text query only when the JSON query failed; whatever the two
\* subprocesses do (success, timeout, non-zero exit, unparsable output) the
\* call returns, a value or "unavailable", and it returns "unavailable"
\* exactly when neither query produced a power figure.
C12_MacJsonThenText ==
    (call.sys = "Darwin") =>
        /\ ~call.raised
        /\ pc = "if_w"
        /\ call.ran[1] = "json"
        /\ (Len(call.ran) = 2) <=> (call.json.kind # "ok")
        /\ (Len(call.ran) = 2) => call.ran[2] = "text"
        /\ (call.json.kind = "ok") => w = Some(call.json.watts)
        /\ IsNone(w) <=> (call.json.kind # "ok" /\ ~TextHasFigure(call.text))

\* The JSON query timed out and the text output gave the figure on its
\* second line.
C12_Witness ==
    /\ call.sys = "Darwin"
    /\ call.json.kind = "timeout"
    /\ call.ran = <<"json", "text">>
    /\ Len(call.text.lines) = 2
    /\ w = Some(Rat(3, 2))


DigitChars == {"0", "1", "2", "3", "4", "5", "6", "7", "8", "9"}

\* cs is an unsigned decimal numeral with a point: digits, one point,
\* digits.
IsNumeral(cs) ==
    /\ Len(cs) >= 3
    /\ \A i \in 1..Len(cs) : cs[i] \in DigitChars \cup {"."}
    /\ Cardinality({i \in 1..Len(cs) : cs[i] = "."}) = 1
    /\ cs[1] # "."
    /\ cs[Len(cs)] # "."

\* C13: a run that ends its loop after at least one tick with an empty
\* watts series does not fail in finalization, and its report shows "N/A"
\* for the min, max and avg of the Watts line and numbers in the CPU and
\* RAM lines.
C13_EmptyWattsReport ==
    /\ (stop_seen >= 1 /\ Len(w_hist) = 0) => pc # "crashed"
    /\ (~IsNone(file) /\ stop_seen >= 1 /\ Len(w_hist) = 0) =>
          LET text == Val(file).text
          IN  /\ text.watts = <<NA, NA, NA>>
              /\ \A i \in 1..3 : IsNumeral(text.cpu[i])
              /\ \A i \in 1..3 : IsNumeral(text.ram[i])
              /\ text = Val(summary)

\* C14: in the report the CPU and RAM statistics have one decimal place
\* and the Watts statistics, when available, two.
C14_DecimalPlaces ==
    /\ (Len(cpu_stats) = 3) => \A i \in 1..3 : Decimals(cpu_stats[i]) = 1
    /\ (Len(ram_stats) = 3) => \A i \in 1..3 : Decimals(ram_stats[i]) = 1
    /\ (Len(w_stats) = 3 /\ Len(w_hist) > 0) =>
          \A i \in 1..3 : Decimals(w_stats[i]) = 2


\* C15: at every tick boundary the watts series has exactly one entry for
\* each completed tick whose backend call returned a value, 0.0 included,
\* and none for a tick whose call returned "unavailable"; inside a tick the
\* value just returned is the only one not yet recorded.
C15_WattsSeriesCountsValues ==
    /\ (pc \in {"while"} \cup FinalPcs) =>
          /\ Len(w_hist) = valued
          /\ valued <= ticks
    /\ (pc = "if_w") =>
          Len(w_hist) = valued - (IF IsNone(w) THEN 0 ELSE 1)

\* Two completed ticks: one call returned 0.0, which was recorded, the
\* other returned nothing.
C15_Witness ==
    /\ pc = "while"
    /\ ticks = 2
    /\ valued = 1
    /\ w_hist = <<Zero>>


\* C16: the interrupt handler only sets the stop flag.  A step in which the
\* handler runs leaves the three series and the stored reading and time of
\* the Linux backend unchanged, and every step that changes a series is a
\* step of the loop body, taken without the handler.
C16_HandlerOnlySetsFlag ==
    [][ /\ (interrupts' # interrupts) =>
              /\ ~running'
              /\ UNCHANGED <<cpu_hist, ram_hist, w_hist, last_j, last_t>>
        /\ (hists' # hists) =>
              /\ interrupts' = interrupts
              /\ pc \in {"cpu", "ram", "if_w"}
              /\ stop_seen = -1
      ]_vars

\* The handler has run twice, the second time in the middle of the second
\* tick, with samples recorded and the Linux backend holding a reading.
C16_Witness ==
    /\ interrupts = 2
    /\ ~running
    /\ pc = "watts"
    /\ sysname = "Linux"
    /\ ~IsNone(last_j)
    /\ Len(cpu_hist) = 2
    /\ Len(w_hist) = 1

\* The statistics of the series xs as the report shows them.
ShownStats(xs) == IF Len(xs) = 0 THEN <<NA, NA, NA>> ELSE _stats(xs).val

\* C17: the report is written at most once, only after a stop request has
\* been seen by the loop and the loop has ended, never while the flag is
\* still true; from the end of the loop on no series changes, so the
\* statistics in the report are those of the final series.
C17_ReportOnceAfterLoop ==
    [][ /\ (~IsNone(file')) =>
              /\ ~running'
              /\ stop_seen' >= 0
              /\ pc' \in {"done", "crashed"}
              /\ Val(file').text.cpu = ShownStats(cpu_hist')
              /\ Val(file').text.ram = ShownStats(ram_hist')
              /\ Val(file').text.watts = ShownStats(w_hist')
        /\ (file' # file) => (pc = "write" /\ IsNone(file))
        /\ (pc \in FinalPcs) => UNCHANGED <<hists, ticks>>
        /\ (pc \notin FinalPcs) => (IsNone(file') /\ IsNone(summary'))
      ]_vars

\* The report of a run of two ticks, both with a watt value, interrupted
\* twice.
C17_Witness ==
    /\ pc = "done"
    /\ ~IsNone(file)
    /\ ticks = 2
    /\ Len(w_hist) = 2
    /\ interrupts = 2


\* C18: on Linux, while the stored reading is None (as it is from
\* construction on when the constructor's read was unavailable) no step
\* initialises it: it and the stored time stay as they are, every call
\* returns "unavailable", also when its own reading succeeds, and the watts
\* series stays empty.
C18_UnreadableAtConstructionStaysUnavailable ==
    [][ (sysname = "Linux" /\ IsNone(last_j)) =>
            /\ IsNone(last_j')
            /\ last_t' = last_t
            /\ Len(w_hist) = 0
            /\ Len(w_hist') = 0
            /\ valued' = 0
            /\ (calls' # calls) =>
                  /\ pc' = "if_w"
                  /\ IsNone(w')
                  /\ IsNone(call'.prev_j)
      ]_vars

\* The second call of a run whose constructor could not read the counter:
\* the call read 2150000 uJ and returned nothing.
C18_Witness ==
    /\ sysname = "Linux"
    /\ IsNone(last_j)
    /\ calls = 2
    /\ pc = "if_w"
    /\ call.j = Some(2150000)
    /\ IsNone(w)

\* C19: a call of the Linux backend that returns "unavailable" leaves the
\* stored reading and time as they were; a call that returns a value
\* differences its reading and time against the stored ones, however many
\* calls ago they were stored, and then stores its own.
C19_UnavailableKeepsPrevious ==
    [][ (sysname = "Linux" /\ calls' # calls /\ pc' = "if_w") =>
            IF IsNone(w')
            THEN UNCHANGED <<last_j, last_t>>
            ELSE /\ ~IsNone(last_j)
                 /\ last_j' = call'.j
                 /\ last_t' = call'.t
                 /\ call'.t = clock
                 /\ LET dj == Val(last_j') - Val(last_j)
                        dt == last_t' - last_t
                    IN  /\ dt # 0
                        /\ IsClampedQuotient(Val(w'), dj, dt)
      ]_vars

\* The first call returned nothing, the second one second later read
\* 2150000 uJ: it reports the float nearest to 0.575 W, the 1150000 uJ since
\* construction over the two seconds since construction.
C19_Witness ==
    /\ sysname = "Linux"
    /\ calls = 2
    /\ valued = 1
    /\ pc = "if_w"
    /\ call.prev_j = Some(1000000)
    /\ call.prev_t = 0
    /\ call.j = Some(2150000)
    /\ call.t = 2
    /\ w = Some(RatDiv(Rat(1150000, 2), Int2Rat(MicroPerUnit)))


\* C11: of runs executing at the same time, also two started within the
\* same second, every run that has ended normally finds its own report in
\* the directory, under a name no other ended run has written to.
C11_RunsKeepOwnReports ==
    /\ \A r \in Runs :
          procs[r].pc = "done" =>
              [name |-> file_path(Val(procs[r].start_ts)),
               text |-> utf8(render(Val(procs[r].summary)))] \in run_dir
    /\ \A r1, r2 \in Runs :
          (r1 # r2 /\ procs[r1].pc = "done" /\ procs[r2].pc = "done") =>
              file_path(Val(procs[r1].start_ts))
                  # file_path(Val(procs[r2].start_ts))

=============================================================================
